---- MODULE Spec2Model ----
(***************************************************************************)
(* A model of the analyzer of cfganalyze (src/analyzer.go): the four       *)
(* public operations ScanJson, PrintJson, ScanEnv and PrintEnv, the        *)
(* construction of the analyzer (newAnalyzer, connect, read) and the       *)
(* format-specific scan.                                                   *)
(*                                                                         *)
(* One behaviour is one invocation: Call fixes the configuration and the   *)
(* outside world (local disk, remote host), then the steps of the          *)
(* operation run in the order of the code until the operation returns.     *)
(***************************************************************************)
EXTENDS Integers, Sequences, FiniteSets, TLC

(***************************************************************************)
(* Bounds of the model.                                                    *)
(***************************************************************************)
MaxLines == 1        \* lines of an env file given to an invocation (Spec)
MaxNodes == 2        \* nodes of a JSON document given to an invocation (Spec)
ScanMaxLines == 2    \* lines of an env file in SpecScanEnv
ScanMaxNodes == 3    \* nodes of a JSON document in SpecScanJson

EnvKeys == {"FOO", "BAR"}
EnvVals == {"1", "2"}
JsonKeys == {"a", "b"}
JsonKeyOrder == <<"a", "b">>
JsonScalars == {1, 2}

(***************************************************************************)
(* Env files: a sequence of lines. A line is a KEY=VALUE pair or one of    *)
(* the lines the parser skips (a comment, a blank line, a line without     *)
(* '=').                                                                   *)
(***************************************************************************)
PairLine(k, v) == [kind |-> "pair", key |-> k, val |-> v]
SkippedLine(kind) == [kind |-> kind, key |-> "", val |-> ""]
EnvLines ==
    {PairLine(k, v) : k \in EnvKeys, v \in EnvVals}
        \cup {SkippedLine(kind) : kind \in {"comment", "blank", "noeq"}}
EnvFilesUpTo(n) == UNION {[1..l -> EnvLines] : l \in 0..n}

(***************************************************************************)
(* parseEnv: bytes -> KeySet. Lines that are no pair are skipped; the last *)
(* occurrence of a key wins; keys records the order of first occurrence.   *)
(***************************************************************************)
EmptyKeySet == [keys |-> <<>>, val |-> <<>>]
RECURSIVE parseEnv(_)
parseEnv(bytes) ==
    IF bytes = <<>> THEN EmptyKeySet
    ELSE LET rest == parseEnv(SubSeq(bytes, 1, Len(bytes) - 1))
             l == bytes[Len(bytes)]
         IN  IF l.kind # "pair" THEN rest
             ELSE [keys |-> IF l.key \in DOMAIN rest.val
                            THEN rest.keys ELSE Append(rest.keys, l.key),
                   val |-> [k \in DOMAIN rest.val \cup {l.key} |->
                               IF k = l.key THEN l.val ELSE rest.val[k]]]

(***************************************************************************)
(* The env scan: the keys of master absent from working (missing), and the *)
(* keys of both whose values differ (different), in master's key order.    *)
(***************************************************************************)
EnvMissing(working, master) ==
    SelectSeq(master.keys, LAMBDA k : k \notin DOMAIN working.val)
EnvDifferent(working, master) ==
    SelectSeq(master.keys,
              LAMBDA k : k \in DOMAIN working.val /\ working.val[k] # master.val[k])

(***************************************************************************)
(* JSON documents: a KeyTree node is a scalar, a mapping from keys to      *)
(* nodes or a sequence of nodes.                                           *)
(***************************************************************************)
Scalar(v) == [kind |-> "scalar", val |-> v]
Mapping(f) == [kind |-> "map", kids |-> f]
Sequence(s) == [kind |-> "seq", elems |-> s]
RECURSIVE NodeCount(_)
RECURSIVE SumNodes(_, _)
SumNodes(f, D) ==
    IF D = {} THEN 0
    ELSE LET x == CHOOSE x \in D : TRUE
         IN  NodeCount(f[x]) + SumNodes(f, D \ {x})
NodeCount(t) ==
    IF t.kind = "scalar" THEN 1
    ELSE IF t.kind = "map" THEN 1 + SumNodes(t.kids, DOMAIN t.kids)
    ELSE 1 + SumNodes(t.elems, DOMAIN t.elems)
RECURSIVE TreesUpTo(_)
TreesUpTo(n) ==
    IF n <= 0 THEN {}
    ELSE {Scalar(v) : v \in JsonScalars}
         \cup {t \in {Mapping(f) :
                        f \in UNION {[D -> TreesUpTo(n - Cardinality(D))] :
                                        D \in (SUBSET JsonKeys) \ {{}}} \cup {<<>>}} :
                 NodeCount(t) <= n}
         \cup {t \in {Sequence(s) :
                        s \in UNION {[1..l -> TreesUpTo(n - l)] : l \in 1..(n - 1)}
                                  \cup {<<>>}} :
                 NodeCount(t) <= n}

\* The bytes of a JSON file: a well-formed document or not.
JsonDoc(t) == [wellformed |-> TRUE, doc |-> t]
Malformed == [wellformed |-> FALSE, doc |-> Scalar(0)]
JsonFilesUpTo(n) == {JsonDoc(t) : t \in TreesUpTo(n)} \cup {Malformed}
parseJSON(bytes) == bytes.doc

(***************************************************************************)
(* Key paths: a sequence of steps, each a mapping key or a sequence index  *)
(* (zero-based, as the document's indices are).                            *)
(***************************************************************************)
KeyStep(k) == [kind |-> "key", name |-> k, index |-> 0]
IndexStep(i) == [kind |-> "index", name |-> "", index |-> i]

(***************************************************************************)
(* The JSON scan: walk master depth-first; a child of master that has no   *)
(* counterpart in working is reported and not descended into; a child that *)
(* has one is descended into when it is a mapping or a sequence.           *)
(***************************************************************************)
RECURSIVE JsonMissing(_, _, _)
RECURSIVE WalkKeys(_, _, _, _)
RECURSIVE WalkElems(_, _, _, _)
WalkKeys(w, m, path, i) ==
    IF i > Len(JsonKeyOrder) THEN <<>>
    ELSE LET k == JsonKeyOrder[i]
             p == Append(path, KeyStep(k))
             here == IF k \notin DOMAIN m.kids THEN <<>>
                     ELSE IF w.kind # "map" \/ k \notin DOMAIN w.kids THEN <<p>>
                     ELSE JsonMissing(w.kids[k], m.kids[k], p)
         IN  here \o WalkKeys(w, m, path, i + 1)
WalkElems(w, m, path, i) ==
    IF i > Len(m.elems) THEN <<>>
    ELSE LET p == Append(path, IndexStep(i - 1))
             here == IF w.kind # "seq" \/ i > Len(w.elems) THEN <<p>>
                     ELSE JsonMissing(w.elems[i], m.elems[i], p)
         IN  here \o WalkElems(w, m, path, i + 1)
JsonMissing(w, m, path) ==
    IF m.kind = "map" THEN WalkKeys(w, m, path, 1)
    ELSE IF m.kind = "seq" THEN WalkElems(w, m, path, 1)
    ELSE <<>>

\* Deep structural equality of two KeyTrees.
JsonEqual(w, m) == w = m

(***************************************************************************)
(* The outside world and the values of the program.                        *)
(***************************************************************************)
File(b) == [exists |-> TRUE, bytes |-> b]
NoFile == [exists |-> FALSE, bytes |-> <<>>]
NoRemote == [up |-> FALSE, master |-> NoFile]

NilErr == [msg |-> "", arg |-> ""]
Errorf(msg, arg) == [msg |-> msg, arg |-> arg]

NilBash == [nil |-> TRUE, host |-> ""]
newBash(hostAlias) == [nil |-> FALSE, host |-> hostAlias]

Event(call, arg, ok) == [call |-> call, arg |-> arg, ok |-> ok]

NoConfig == [HostAlias |-> "", WorkingPath |-> "", MasterPath |-> ""]
NoDisk == [working |-> NoFile, master |-> NoFile]
ZeroAnalyzer ==
    [working |-> <<>>, master |-> <<>>, bash |-> NilBash,
     missing |-> <<>>, different |-> <<>>]
NoParsed == [working |-> <<>>, master |-> <<>>]
NoReturn == [returned |-> FALSE, missing |-> <<>>, err |-> NilErr]
Return(missing, e) == [returned |-> TRUE, missing |-> missing, err |-> e]

JsonOps == {"ScanJson", "PrintJson"}
EnvOps == {"ScanEnv", "PrintEnv"}
HostAliases == {"", "staging"}

VARIABLES
    pc,       \* the position of the invocation
    op,       \* the public operation invoked
    c,        \* its Config
    disk,     \* the local files under WorkingPath and MasterPath
    remote,   \* the host named by HostAlias: reachable or not, its master file
    a,        \* the analyzer under construction / constructed
    parsed,   \* the parsed structures of the format analyzer
    err,      \* the error of the construction
    ret,      \* what the operation returned
    out,      \* the reports printed
    trace     \* the calls made so far, in order

vars == <<pc, op, c, disk, remote, a, parsed, err, ret, out, trace>>

Init ==
    /\ pc = "idle"
    /\ op = ""
    /\ c = NoConfig
    /\ disk = NoDisk
    /\ remote = NoRemote
    /\ a = ZeroAnalyzer
    /\ parsed = NoParsed
    /\ err = NilErr
    /\ ret = NoReturn
    /\ out = <<>>
    /\ trace = <<>>

(***************************************************************************)
(* A caller invokes operation o with host alias h; w and m are the working *)
(* and the master file, up tells whether the host accepts a session. With  *)
(* a host alias the master file lives on the host, without one on disk.    *)
(***************************************************************************)
Invoke(o, h, w, m, up) ==
    /\ pc = "idle"
    /\ pc' = "newAnalyzer"
    /\ op' = o
    /\ c' = [HostAlias |-> h, WorkingPath |-> "working", MasterPath |-> "master"]
    /\ disk' = [working |-> w, master |-> IF h = "" THEN m ELSE NoFile]
    /\ remote' = IF h = "" THEN NoRemote ELSE [up |-> up, master |-> m]
    /\ UNCHANGED <<a, parsed, err, ret, out, trace>>

Worlds(h) == IF h = "" THEN {FALSE} ELSE BOOLEAN

CallJson ==
    /\ pc = "idle"
    /\ \E o \in JsonOps, h \in HostAliases :
      \E up \in Worlds(h) :
        \E w, m \in {File(b) : b \in JsonFilesUpTo(MaxNodes)} \cup {NoFile} :
            Invoke(o, h, w, m, up)

CallEnv ==
    /\ pc = "idle"
    /\ \E o \in EnvOps, h \in HostAliases :
      \E up \in Worlds(h) :
        \E w, m \in {File(b) : b \in EnvFilesUpTo(MaxLines)} \cup {NoFile} :
            Invoke(o, h, w, m, up)

(***************************************************************************)
(* connect: a.bash is set, ssh is attempted, and whatever ssh returned the *)
(* function returns nil (the error built at line 127 is discarded).        *)
(***************************************************************************)
connect(hostAlias, sshErr) == NilErr

\* newAnalyzer, up to the call of read.
newAnalyzerConnect ==
    /\ pc = "newAnalyzer"
    /\ IF c.HostAlias # ""
       THEN LET sshErr == IF remote.up THEN NilErr
                          ELSE Errorf("ssh failed", c.HostAlias)
                e == connect(c.HostAlias, sshErr)
            IN  /\ a' = [a EXCEPT !.bash = newBash(c.HostAlias)]
                /\ trace' = Append(trace, Event("ssh", c.HostAlias, remote.up))
                /\ err' = e
                /\ pc' = IF e # NilErr THEN "newFormat" ELSE "read"
       ELSE /\ pc' = "read"
            /\ UNCHANGED <<a, trace, err>>
    /\ UNCHANGED <<op, c, disk, remote, parsed, ret, out>>

\* read with the routing test inverted (a.bash == nil).
readInvertedRouting(an, workingPath, masterPath, d, r) ==
    LET w == d.working
        viaScp == an.bash.nil
        m == IF viaScp THEN r.master ELSE d.master
        wEvent == Event("ReadFile", workingPath, w.exists)
        mEvent == Event(IF viaScp THEN "scp" ELSE "ReadFile", masterPath, m.exists)
    IN  IF ~w.exists
        THEN [working |-> <<>>, master |-> an.master,
              err |-> Errorf("could not open", workingPath),
              calls |-> <<wEvent>>]
        ELSE IF ~m.exists
        THEN [working |-> w.bytes, master |-> <<>>,
              err |-> Errorf("could not open", masterPath),
              calls |-> <<wEvent, mEvent>>]
        ELSE [working |-> w.bytes, master |-> m.bytes,
              err |-> NilErr,
              calls |-> <<wEvent, mEvent>>]

\* read without the return after a failed read of the working file.
readContinuesAfterFailure(an, workingPath, masterPath, d, r) ==
    LET w == d.working
        viaScp == ~an.bash.nil
        m == IF viaScp THEN r.master ELSE d.master
        wEvent == Event("ReadFile", workingPath, w.exists)
        mEvent == Event(IF viaScp THEN "scp" ELSE "ReadFile", masterPath, m.exists)
    IN  IF ~m.exists
        THEN [working |-> w.bytes, master |-> <<>>,
              err |-> Errorf("could not open", masterPath),
              calls |-> <<wEvent, mEvent>>]
        ELSE [working |-> w.bytes, master |-> m.bytes,
              err |-> IF w.exists THEN NilErr
                      ELSE Errorf("could not open", workingPath),
              calls |-> <<wEvent, mEvent>>]

(***************************************************************************)
(* read: the working file from disk; then the master file by scp when      *)
(* a.bash is set and from disk otherwise. The first failure returns.       *)
(***************************************************************************)
read(an, workingPath, masterPath, d, r) ==
    LET w == d.working
        viaScp == ~an.bash.nil
        m == IF viaScp THEN r.master ELSE d.master
        wEvent == Event("ReadFile", workingPath, w.exists)
        mEvent == Event(IF viaScp THEN "scp" ELSE "ReadFile", masterPath, m.exists)
    IN  IF ~w.exists
        THEN [working |-> <<>>, master |-> an.master,
              err |-> Errorf("could not open", workingPath),
              calls |-> <<wEvent>>]
        ELSE IF ~m.exists
        THEN [working |-> w.bytes, master |-> <<>>,
              err |-> Errorf("could not open", masterPath),
              calls |-> <<wEvent, mEvent>>]
        ELSE [working |-> w.bytes, master |-> m.bytes,
              err |-> NilErr,
              calls |-> <<wEvent, mEvent>>]

\* newAnalyzer, from the call of read to its return.
newAnalyzerRead ==
    /\ pc = "read"
    /\ LET r == read(a, c.WorkingPath, c.MasterPath, disk, remote)
       IN  /\ a' = [a EXCEPT !.working = r.working, !.master = r.master]
           /\ err' = r.err
           /\ trace' = trace \o r.calls
    /\ pc' = "newFormat"
    /\ UNCHANGED <<op, c, disk, remote, parsed, ret, out>>

(***************************************************************************)
(* newJsonAnalyzer / newEnvAnalyzer, after newAnalyzer returned: the error *)
(* of newAnalyzer is passed on; otherwise both buffers are parsed.         *)
(***************************************************************************)
newJsonAnalyzer ==
    /\ pc = "newFormat"
    /\ op \in JsonOps
    /\ IF err # NilErr
       THEN UNCHANGED <<parsed, err, trace>>
       ELSE IF ~a.working.wellformed
       THEN /\ err' = Errorf("parse error", c.WorkingPath)
            /\ trace' = Append(trace, Event("parseJSON", c.WorkingPath, FALSE))
            /\ UNCHANGED parsed
       ELSE IF ~a.master.wellformed
       THEN /\ err' = Errorf("parse error", c.MasterPath)
            /\ trace' = trace \o <<Event("parseJSON", c.WorkingPath, TRUE),
                                   Event("parseJSON", c.MasterPath, FALSE)>>
            /\ UNCHANGED parsed
       ELSE /\ parsed' = [working |-> parseJSON(a.working),
                          master |-> parseJSON(a.master)]
            /\ trace' = trace \o <<Event("parseJSON", c.WorkingPath, TRUE),
                                   Event("parseJSON", c.MasterPath, TRUE)>>
            /\ UNCHANGED err
    /\ pc' = "constructed"
    /\ UNCHANGED <<op, c, disk, remote, a, ret, out>>

newEnvAnalyzer ==
    /\ pc = "newFormat"
    /\ op \in EnvOps
    /\ IF err # NilErr
       THEN UNCHANGED <<parsed, trace>>
       ELSE /\ parsed' = [working |-> parseEnv(a.working),
                          master |-> parseEnv(a.master)]
            /\ trace' = trace \o <<Event("parseEnv", c.WorkingPath, TRUE),
                                   Event("parseEnv", c.MasterPath, TRUE)>>
    /\ pc' = "constructed"
    /\ UNCHANGED <<op, c, disk, remote, a, err, ret, out>>

\* analyzer.scan() of the two formats.
jsonScan(an, p) ==
    [an EXCEPT !.missing = JsonMissing(p.working, p.master, <<>>)]
envScan(an, p) ==
    [an EXCEPT !.missing = EnvMissing(p.working, p.master),
               !.different = EnvDifferent(p.working, p.master)]

MissingReport(path, keys) == [report |-> "missing", path |-> path, keys |-> keys]
DifferReport(working, master) ==
    [report |-> "different", path |-> working, keys |-> master]
ListReport(keys) == [report |-> "list", path |-> "", keys |-> keys]

\* ScanJson without the call of analyzer.scan().
ScanJsonSkipsScan ==
    /\ pc = "constructed"
    /\ op = "ScanJson"
    /\ ret' = IF err # NilErr THEN Return(<<>>, err) ELSE Return(a.missing, NilErr)
    /\ pc' = "done"
    /\ UNCHANGED <<op, c, disk, remote, a, parsed, err, out, trace>>

ScanJson ==
    /\ pc = "constructed"
    /\ op = "ScanJson"
    /\ IF err # NilErr
       THEN /\ ret' = Return(<<>>, err)
            /\ UNCHANGED <<a, trace>>
       ELSE /\ a' = jsonScan(a, parsed)
            /\ trace' = Append(trace, Event("scan", "", TRUE))
            /\ ret' = Return(a'.missing, NilErr)
    /\ pc' = "done"
    /\ UNCHANGED <<op, c, disk, remote, parsed, err, out>>

\* PrintJson without the return after the missing-keys report.
PrintJsonNoEarlyReturn ==
    /\ pc = "constructed"
    /\ op = "PrintJson"
    /\ IF err # NilErr
       THEN /\ ret' = Return(<<>>, err)
            /\ UNCHANGED <<a, trace, out>>
       ELSE LET scanned == jsonScan(a, parsed)
                didScan == Append(trace, Event("scan", "", TRUE))
                out1 == IF Len(scanned.missing) > 0
                        THEN Append(out, MissingReport(c.WorkingPath, scanned.missing))
                        ELSE out
            IN  /\ a' = scanned
                /\ \E eqOk \in BOOLEAN :
                     LET equal == eqOk /\ JsonEqual(parsed.working, parsed.master)
                     IN  /\ trace' = Append(didScan, Event("equality", "", eqOk))
                         /\ IF ~eqOk
                            THEN /\ ret' = Return(<<>>, Errorf("equality failed", ""))
                                 /\ out' = out1
                            ELSE /\ out' = IF ~equal
                                           THEN Append(out1, DifferReport(c.WorkingPath, c.MasterPath))
                                           ELSE out1
                                 /\ ret' = Return(<<>>, NilErr)
    /\ pc' = "done"
    /\ UNCHANGED <<op, c, disk, remote, parsed, err>>

\* PrintJson testing !equal before the error of equality().
PrintJsonReportsBeforeErrCheck ==
    /\ pc = "constructed"
    /\ op = "PrintJson"
    /\ IF err # NilErr
       THEN /\ ret' = Return(<<>>, err)
            /\ UNCHANGED <<a, trace, out>>
       ELSE LET scanned == jsonScan(a, parsed)
                didScan == Append(trace, Event("scan", "", TRUE))
            IN  /\ a' = scanned
                /\ IF Len(scanned.missing) > 0
                   THEN /\ out' = Append(out, MissingReport(c.WorkingPath, scanned.missing))
                        /\ trace' = didScan
                        /\ ret' = Return(<<>>, NilErr)
                   ELSE \E eqOk \in BOOLEAN :
                          LET equal == eqOk /\ JsonEqual(parsed.working, parsed.master)
                          IN  /\ trace' = Append(didScan, Event("equality", "", eqOk))
                              /\ out' = IF ~equal
                                        THEN Append(out, DifferReport(c.WorkingPath, c.MasterPath))
                                        ELSE out
                              /\ ret' = IF ~eqOk
                                        THEN Return(<<>>, Errorf("equality failed", ""))
                                        ELSE Return(<<>>, NilErr)
    /\ pc' = "done"
    /\ UNCHANGED <<op, c, disk, remote, parsed, err>>

PrintJson ==
    /\ pc = "constructed"
    /\ op = "PrintJson"
    /\ IF err # NilErr
       THEN /\ ret' = Return(<<>>, err)
            /\ UNCHANGED <<a, trace, out>>
       ELSE LET scanned == jsonScan(a, parsed)
                didScan == Append(trace, Event("scan", "", TRUE))
            IN  /\ a' = scanned
                /\ IF Len(scanned.missing) > 0
                   THEN /\ out' = Append(out, MissingReport(c.WorkingPath, scanned.missing))
                        /\ trace' = didScan
                        /\ ret' = Return(<<>>, NilErr)
                   ELSE \E eqOk \in BOOLEAN :
                          LET equal == eqOk /\ JsonEqual(parsed.working, parsed.master)
                          IN  /\ trace' = Append(didScan, Event("equality", "", eqOk))
                              /\ IF ~eqOk
                                 THEN /\ ret' = Return(<<>>, Errorf("equality failed", ""))
                                      /\ UNCHANGED out
                                 ELSE /\ out' = IF ~equal
                                                THEN Append(out, DifferReport(c.WorkingPath, c.MasterPath))
                                                ELSE out
                                      /\ ret' = Return(<<>>, NilErr)
    /\ pc' = "done"
    /\ UNCHANGED <<op, c, disk, remote, parsed, err>>

\* ScanEnv returning analyzer.different in place of analyzer.missing.
ScanEnvReturnsDifferent ==
    /\ pc = "constructed"
    /\ op = "ScanEnv"
    /\ IF err # NilErr
       THEN /\ ret' = Return(<<>>, err)
            /\ UNCHANGED <<a, trace>>
       ELSE /\ a' = envScan(a, parsed)
            /\ trace' = Append(trace, Event("scan", "", TRUE))
            /\ ret' = Return(a'.different, NilErr)
    /\ pc' = "done"
    /\ UNCHANGED <<op, c, disk, remote, parsed, err, out>>

ScanEnv ==
    /\ pc = "constructed"
    /\ op = "ScanEnv"
    /\ IF err # NilErr
       THEN /\ ret' = Return(<<>>, err)
            /\ UNCHANGED <<a, trace>>
       ELSE /\ a' = envScan(a, parsed)
            /\ trace' = Append(trace, Event("scan", "", TRUE))
            /\ ret' = Return(a'.missing, NilErr)
    /\ pc' = "done"
    /\ UNCHANGED <<op, c, disk, remote, parsed, err, out>>

\* PrintEnv returning an error when missing keys were found.
PrintEnvErrorOnMissing ==
    /\ pc = "constructed"
    /\ op = "PrintEnv"
    /\ IF err # NilErr
       THEN /\ ret' = Return(<<>>, err)
            /\ UNCHANGED <<a, trace, out>>
       ELSE LET scanned == envScan(a, parsed)
            IN  /\ a' = scanned
                /\ trace' = Append(trace, Event("scan", "", TRUE))
                /\ out' = IF Len(scanned.missing) > 0
                          THEN Append(out, MissingReport(c.WorkingPath, scanned.missing))
                          ELSE IF Len(scanned.different) > 0
                          THEN out \o <<DifferReport(c.WorkingPath, c.MasterPath),
                                        ListReport(scanned.different)>>
                          ELSE out
                /\ ret' = IF Len(scanned.missing) > 0
                          THEN Return(<<>>, Errorf("missing keys", c.WorkingPath))
                          ELSE Return(<<>>, NilErr)
    /\ pc' = "done"
    /\ UNCHANGED <<op, c, disk, remote, parsed, err>>

PrintEnv ==
    /\ pc = "constructed"
    /\ op = "PrintEnv"
    /\ IF err # NilErr
       THEN /\ ret' = Return(<<>>, err)
            /\ UNCHANGED <<a, trace, out>>
       ELSE LET scanned == envScan(a, parsed)
            IN  /\ a' = scanned
                /\ trace' = Append(trace, Event("scan", "", TRUE))
                /\ out' = IF Len(scanned.missing) > 0
                          THEN Append(out, MissingReport(c.WorkingPath, scanned.missing))
                          ELSE IF Len(scanned.different) > 0
                          THEN out \o <<DifferReport(c.WorkingPath, c.MasterPath),
                                        ListReport(scanned.different)>>
                          ELSE out
                /\ ret' = Return(<<>>, NilErr)
    /\ pc' = "done"
    /\ UNCHANGED <<op, c, disk, remote, parsed, err>>

Next ==
    \/ CallJson
    \/ CallEnv
    \/ newAnalyzerConnect
    \/ newAnalyzerRead
    \/ newJsonAnalyzer
    \/ newEnvAnalyzer
    \/ ScanJson
    \/ PrintJson
    \/ ScanEnv
    \/ PrintEnv

Spec == Init /\ [][Next]_vars

(***************************************************************************)
(* ScanEnv and ScanJson on every pair of files that load, read from local  *)
(* disk.                                                                   *)
(***************************************************************************)
CallScanEnv ==
    /\ pc = "idle"
    /\ \E w, m \in {File(b) : b \in EnvFilesUpTo(ScanMaxLines)} :
        Invoke("ScanEnv", "", w, m, FALSE)

NextScanEnv ==
    \/ CallScanEnv
    \/ newAnalyzerConnect
    \/ newAnalyzerRead
    \/ newEnvAnalyzer
    \/ ScanEnv

SpecScanEnv == Init /\ [][NextScanEnv]_vars

CallScanJson ==
    /\ pc = "idle"
    /\ \E w, m \in {File(JsonDoc(t)) : t \in TreesUpTo(ScanMaxNodes)} :
        Invoke("ScanJson", "", w, m, FALSE)

NextScanJson ==
    \/ CallScanJson
    \/ newAnalyzerConnect
    \/ newAnalyzerRead
    \/ newJsonAnalyzer
    \/ ScanJson

SpecScanJson == Init /\ [][NextScanJson]_vars

(***************************************************************************)
(* Vocabulary of the properties.                                           *)
(***************************************************************************)
Elems(s) == {s[i] : i \in DOMAIN s}
Calls(name) == {e \in Elems(trace) : e.call = name}
Positions(P(_)) == {i \in DOMAIN trace : P(trace[i])}
PrintOps == {"PrintJson", "PrintEnv"}
Reported(kind) == \E r \in Elems(out) : r.report = kind
ConnectionError(hostAlias) == Errorf("could not connect to host", hostAlias)
SshFailed == \E e \in Calls("ssh") : ~e.ok
IsFileAccess(e) == e.call \in {"ReadFile", "scp"}
IsWorkingAccess(e) == IsFileAccess(e) /\ e.arg = c.WorkingPath
IsMasterAccess(e) == IsFileAccess(e) /\ e.arg = c.MasterPath

\* Resolution of a key path in a KeyTree, and the paths of a KeyTree.
RECURSIVE Resolves(_, _)
Resolves(t, p) ==
    IF p = <<>> THEN TRUE
    ELSE LET s == Head(p)
         IN  IF s.kind = "key"
             THEN /\ t.kind = "map"
                  /\ s.name \in DOMAIN t.kids
                  /\ Resolves(t.kids[s.name], Tail(p))
             ELSE /\ t.kind = "seq"
                  /\ (s.index + 1) \in DOMAIN t.elems
                  /\ Resolves(t.elems[s.index + 1], Tail(p))
RECURSIVE PathsFrom(_, _)
PathsFrom(t, prefix) ==
    IF t.kind = "map"
    THEN UNION {{Append(prefix, KeyStep(k))}
                  \cup PathsFrom(t.kids[k], Append(prefix, KeyStep(k))) :
                k \in DOMAIN t.kids}
    ELSE IF t.kind = "seq"
    THEN UNION {{Append(prefix, IndexStep(i - 1))}
                  \cup PathsFrom(t.elems[i], Append(prefix, IndexStep(i - 1))) :
                i \in DOMAIN t.elems}
    ELSE {}
Parent(p) == SubSeq(p, 1, Len(p) - 1)
IsProperPrefix(p, q) == Len(p) < Len(q) /\ SubSeq(q, 1, Len(p)) = p

ScanEnvReturned == pc = "done" /\ op = "ScanEnv" /\ ret.err = NilErr
ScanJsonReturned == pc = "done" /\ op = "ScanJson" /\ ret.err = NilErr

(***************************************************************************)
(* C1. When ScanEnv returns for two env files that load, the keys of the   *)
(* returned list are exactly the keys of master's KeySet that are no key   *)
(* of working's KeySet, whatever the values: each such key is listed, and  *)
(* no key of working (shared or working-only) is.                          *)
(***************************************************************************)
C1_ScanEnvMissingExact ==
    ScanEnvReturned =>
        /\ Elems(ret.missing) = DOMAIN parsed.master.val \ DOMAIN parsed.working.val
        /\ Elems(ret.missing) \cap DOMAIN parsed.working.val = {}

\* A ScanEnv that lists a key while working holds a key master lacks and
\* master holds a key of working under another value.
C1_Witness ==
    /\ ScanEnvReturned
    /\ ret.missing # <<>>
    /\ \E k \in DOMAIN parsed.working.val :
         k \in DOMAIN parsed.master.val /\ parsed.working.val[k] # parsed.master.val[k]

C1_WitnessWorkingOnly ==
    /\ ScanEnvReturned
    /\ ret.missing # <<>>
    /\ DOMAIN parsed.working.val \ DOMAIN parsed.master.val # {}

(***************************************************************************)
(* C2. When ScanJson returns for two documents that load, a key path is    *)
(* reported exactly when it is a path of master that does not resolve in   *)
(* working while its parent path does; so no descendant of a reported path *)
(* is reported, no path of working alone is, and no path is reported       *)
(* twice.                                                                  *)
(***************************************************************************)
C2_ScanJsonTopmostMissing ==
    ScanJsonReturned =>
        /\ Elems(ret.missing) =
             {p \in PathsFrom(parsed.master, <<>>) :
                ~Resolves(parsed.working, p) /\ Resolves(parsed.working, Parent(p))}
        /\ \A p, q \in Elems(ret.missing) : ~IsProperPrefix(p, q)
        /\ Cardinality(Elems(ret.missing)) = Len(ret.missing)

\* A ScanJson that reports a key of master which has descendants, while
\* working holds a key master lacks.
C2_Witness ==
    /\ ScanJsonReturned
    /\ \E p \in Elems(ret.missing) :
         \E q \in PathsFrom(parsed.master, <<>>) : IsProperPrefix(p, q)
    /\ \E p \in PathsFrom(parsed.working, <<>>) : ~Resolves(parsed.master, p)

C4_ConnectionErrorReturned ==
    (pc = "done" /\ SshFailed) =>
        /\ ret.err = ConnectionError(c.HostAlias)
        /\ ret.missing = <<>>
        /\ Calls("scan") = {}

(***************************************************************************)
(* C5. The session is attempted before any file access, and once the       *)
(* session could not be opened no file is read or fetched.                 *)
(***************************************************************************)
C5_FailFastOnSession ==
    /\ \A i \in Positions(IsFileAccess) :
          c.HostAlias # "" => \E j \in 1..(i - 1) : trace[j].call = "ssh"
    /\ SshFailed => Positions(IsFileAccess) = {}

\* The half of C5 the code keeps: with a host alias, ssh comes before any
\* file access.
C5_SessionAttemptedFirst ==
    \A i \in Positions(IsFileAccess) :
        c.HostAlias # "" => \E j \in 1..(i - 1) : trace[j].call = "ssh"

(***************************************************************************)
(* C6. An error return and a result exclude each other: an operation that  *)
(* returns an error returns no list and has printed no report; one that    *)
(* returns a list or has printed a report returns nil.                     *)
(***************************************************************************)
C6_ErrorExcludesReport ==
    /\ (ret.returned /\ ret.err # NilErr) => (ret.missing = <<>> /\ out = <<>>)
    /\ (ret.missing # <<>> \/ out # <<>>) => (ret.returned /\ ret.err = NilErr)

\* PrintJson returning the error of equality(), after its scan.
C6_Witness ==
    /\ pc = "done"
    /\ op = "PrintJson"
    /\ ret.err # NilErr
    /\ Calls("scan") # {}
    /\ \E e \in Calls("equality") : ~e.ok

(***************************************************************************)
(* C8. The host alias alone routes the reads: the working file is always   *)
(* read from disk; the master file is fetched by scp exactly when a host   *)
(* alias is given and read from disk otherwise, never both; and the bytes  *)
(* the analyzer holds are those of that source.                            *)
(***************************************************************************)
C8_RoutingByHostAlias ==
    /\ \A e \in Elems(trace) : IsWorkingAccess(e) => e.call = "ReadFile"
    /\ \A e \in Elems(trace) :
          IsMasterAccess(e) => (e.call = "scp" <=> c.HostAlias # "")
    /\ \A e \in Calls("scp") : e.arg = c.MasterPath
    /\ ~(\E e, f \in Elems(trace) :
            IsMasterAccess(e) /\ IsMasterAccess(f) /\ e.call # f.call)
    /\ (pc \in {"newFormat", "constructed", "done"} /\ err = NilErr) =>
          /\ a.working = disk.working.bytes
          /\ a.master = IF c.HostAlias # "" THEN remote.master.bytes
                        ELSE disk.master.bytes

C8_Witness ==
    /\ pc = "done"
    /\ ret.err = NilErr
    /\ \E e \in Calls("scp") : e.ok
    /\ \E e \in Calls("ReadFile") : e.ok

(***************************************************************************)
(* C9. No retry: the working file and the master file are each accessed at *)
(* most once; after a failed read of the working file the master file is   *)
(* not accessed; after a failed access neither scan nor equality runs and  *)
(* the operation returns the error of that access.                         *)
(***************************************************************************)
C9_NoRetryFirstFailureAborts ==
    /\ Cardinality(Positions(IsWorkingAccess)) <= 1
    /\ Cardinality(Positions(IsMasterAccess)) <= 1
    /\ (\E e \in Elems(trace) : IsWorkingAccess(e) /\ ~e.ok) =>
          Positions(IsMasterAccess) = {}
    /\ \A e \in Elems(trace) :
          (IsFileAccess(e) /\ ~e.ok) =>
              /\ Calls("scan") = {}
              /\ Calls("equality") = {}
              /\ pc = "done" => ret.err = Errorf("could not open", e.arg)

C9_Witness ==
    /\ pc = "done"
    /\ \E e \in Elems(trace) : IsMasterAccess(e) /\ ~e.ok
    /\ ret.err # NilErr

(***************************************************************************)
(* C10. The error PrintJson and PrintEnv return says nothing about the     *)
(* findings: it is non-nil exactly when the construction failed or the     *)
(* equality computation failed, whether or not missing keys or differences *)
(* were found.                                                             *)
(***************************************************************************)
C10_PrintErrorIgnoresFindings ==
    (pc = "done" /\ op \in PrintOps) =>
        (ret.err # NilErr <=> (err # NilErr \/ \E e \in Calls("equality") : ~e.ok))

C10_Witness ==
    /\ pc = "done"
    /\ op = "PrintEnv"
    /\ Len(a.missing) > 0
    /\ Reported("missing")
    /\ ret.err = NilErr

C10_WitnessDifferent ==
    /\ pc = "done"
    /\ op \in PrintOps
    /\ Reported("different")
    /\ ret.err = NilErr

====
